---- MODULE Spec2Model ----
(***************************************************************************)
(* Model of myCobot/joystick_control_mycobot.py: a joystick poller thread  *)
(* (Joystick_Detector), a 10 Hz aggregator thread                          *)
(* (Joystick_Signal_Adapter) whose notify() calls the controller           *)
(* (Customized_MyCobot.update) synchronously, and main(), which starts the *)
(* threads, waits for a KeyboardInterrupt and runs the shutdown sequence.  *)
(***************************************************************************)
EXTENDS Integers, Sequences, FiniteSets, TLC

(***************************************************************************)
(* Data of the program                                                     *)
(***************************************************************************)

\* The buttons Customized_MyCobot tests for (XInput button names).
Buttons ==
    {"A", "B", "X", "Y", "DPAD_LEFT", "DPAD_RIGHT",
     "LEFT_SHOULDER", "RIGHT_SHOULDER", "START", "BACK"}

\* _get_combination_action: the four membership tests, in the order of the
\* short-circuit "and" chain.
Combination == <<"LEFT_SHOULDER", "RIGHT_SHOULDER", "START", "BACK">>

\* Mutant of Priority: the two DPAD tests in each other's place.
PriorityDpadSwapped ==
    <<"A", "B", "X", "Y", "DPAD_RIGHT", "DPAD_LEFT",
      "LEFT_SHOULDER", "RIGHT_SHOULDER">>

\* update: the buttons of the if/elif chain, in source order.
Priority ==
    <<"A", "B", "X", "Y", "DPAD_LEFT", "DPAD_RIGHT",
      "LEFT_SHOULDER", "RIGHT_SHOULDER">>

\* update: the branch each elif of the chain runs.
Branch ==
    <<"stand", "sleep", "stop", "next_color", "rot_neg", "rot_pos",
      "joint_dec", "joint_inc">>

MIN_ANGLES == <<-160, -100, -150, -150, -160, -180>>
MAX_ANGLES == <<160, 100, 150, 150, 160, 180>>

\* The pose sent by the "A" branch and its speed.
StandCmd == <<"send_angles", <<0, 0, 0, 0, 0, 0>>, 50>>

\* The pose sent by the "B" branch.
SleepCmd == <<"send_angles", <<83, 140, -150, 154, 87, 0>>, 50>>

\* go_sleep(): the pose main() sends in the shutdown sequence.
GoSleepCmd == <<"send_angles", <<83, 140, -150, 154, 87, 0>>, 50>>

\* __init__: self.color and self.joint.
InitColor == <<0, 255, 0>>
InitJoint == 1

\* Mutant of GraceSeconds: a countdown one second short.
GraceSecondsShort == 10 - 1

\* main(): for i in range(10, 0, -1): ... time.sleep(1)
GraceSeconds == 10

\* Mutant of Max: no clamping at zero.
MaxIsFirst(a, b) == a

Max(a, b) == IF a >= b THEN a ELSE b

\* next_color(): the colour after one advance.
NextColor(c) ==
    LET r == c[1]
        g == c[2]
        b == c[3]
    IN  IF r = 0 /\ g > 0
        THEN LET g2 == Max(g - 32, 0) IN <<r, g2, 255 - g2>>
        ELSE IF g = 0 /\ b > 0
        THEN LET b2 == Max(b - 32, 0) IN <<255 - b2, g, b2>>
        ELSE IF b = 0 /\ r > 0
        THEN LET r2 == Max(r - 32, 0) IN <<r2, 255 - r2, b>>
        ELSE c

\* Mutant of NegTarget: joint 6 is sent theta - 179 as it is.
NegTargetNoWrap(j, theta) == IF j = 6 THEN theta - 179 ELSE MIN_ANGLES[j]

\* update, DPAD_LEFT branch: the target angle of the selected joint, theta
\* being get_angles()[joint - 1].
NegTarget(j, theta) ==
    IF j = 6
    THEN IF theta - 179 < -180 THEN theta - 179 + 360 ELSE theta - 179
    ELSE MIN_ANGLES[j]

\* Mutant of PosTarget: the limit is read at index joint instead of joint - 1.
PosTargetNextJoint(j, theta) ==
    IF j = 6
    THEN IF theta + 179 > 180 THEN theta + 179 - 360 ELSE theta + 179
    ELSE MAX_ANGLES[j + 1]

\* update, DPAD_RIGHT branch.
PosTarget(j, theta) ==
    IF j = 6
    THEN IF theta + 179 > 180 THEN theta + 179 - 360 ELSE theta + 179
    ELSE MAX_ANGLES[j]

\* Mutant of JointDec: the selection stops at joint 1.
JointDecNoWrap(j) == IF j = 1 THEN 1 ELSE j - 1

\* update, LEFT_SHOULDER and RIGHT_SHOULDER branches.
JointDec(j) == IF j = 1 THEN 6 ELSE j - 1
JointInc(j) == IF j = 6 THEN 1 ELSE j + 1

\* Angles get_angles() may report for joint 6: the ends of its range and the
\* values around the two wrap thresholds of the rotation branches.
Angles6 == {MIN_ANGLES[6], -2, -1, 0, 1, 2, MAX_ANGLES[6]}

(***************************************************************************)
(* Control points of Customized_MyCobot.update.  A control point is a      *)
(* record [at, i]: "len" is the len(...) > 0 test, ("combo", i) the i-th   *)
(* membership test of _get_combination_action, ("elif", i) the i-th test   *)
(* of the if/elif chain; every other "at" is the branch that was chosen    *)
(* and has still to run.                                                   *)
(***************************************************************************)
P(at, i) == [at |-> at, i |-> i]

ReadAts == {"len", "combo", "elif"}

BranchAts ==
    {"idle", "end_program", "no_match"} \cup {Branch[k] : k \in 1..Len(Branch)}

\* Mutant of UpdateStep: the if/elif chain is tried before the termination
\* combination, which is reached only when no button of the chain is pressed.
UpdateStepChainFirst(pc, buttons) ==
    IF pc.at = "len"
    THEN IF Cardinality(buttons) > 0 THEN P("elif", 1) ELSE P("idle", 0)
    ELSE IF pc.at = "elif"
    THEN IF Priority[pc.i] \in buttons
         THEN P(Branch[pc.i], 0)
         ELSE IF pc.i < Len(Priority)
              THEN P("elif", pc.i + 1)
              ELSE P("combo", 1)
    ELSE IF Combination[pc.i] \in buttons
         THEN IF pc.i < Len(Combination)
              THEN P("combo", pc.i + 1)
              ELSE P("end_program", 0)
         ELSE P("no_match", 0)

\* One test of update, evaluated on the content the set has when the test
\* runs: the control point that follows.
UpdateStep(pc, buttons) ==
    IF pc.at = "len"
    THEN IF Cardinality(buttons) > 0 THEN P("combo", 1) ELSE P("idle", 0)
    ELSE IF pc.at = "combo"
    THEN IF Combination[pc.i] \in buttons
         THEN IF pc.i < Len(Combination)
              THEN P("combo", pc.i + 1)
              ELSE P("end_program", 0)
         ELSE P("elif", 1)
    ELSE IF Priority[pc.i] \in buttons
         THEN P(Branch[pc.i], 0)
         ELSE IF pc.i < Len(Priority)
              THEN P("elif", pc.i + 1)
              ELSE P("no_match", 0)

\* update run on a set nobody changes meanwhile: the branch it chooses.
RECURSIVE RunTests(_, _)
RunTests(pc, buttons) ==
    IF pc.at \in ReadAts THEN RunTests(UpdateStep(pc, buttons), buttons) ELSE pc

Decide(buttons) == RunTests(P("len", 0), buttons).at

(***************************************************************************)
(* State                                                                   *)
(***************************************************************************)
VARIABLES
    pressed_button,      \* Joystick_Signal_Adapter.pressed_button
    trigger_values,      \* Joystick_Signal_Adapter.trigger_values (L, R)
    stick_values,        \* Joystick_Signal_Adapter.stick_values (L, R)
    keyboard_interrupt,  \* Joystick_Signal_Adapter.keyboard_interrupt
    jd_observers,        \* Joystick_Detector.observers
    sa_observers,        \* Joystick_Signal_Adapter.observers
    joint,               \* Customized_MyCobot.joint
    color,               \* Customized_MyCobot.color
    jd_pc,               \* thread of Joystick_Detector.run
    sa_pc,               \* thread of Joystick_Signal_Adapter.run: a control point
    main_pc,             \* main()
    wait_i,              \* main(): seconds of the countdown still to sleep
    is_stopped,          \* Thread._is_stopped of the two threads (set by kill)
    \* History of the run, read by the properties only:
    tick_cmds,           \* actuator commands issued by the update call in progress
    tick_branch,         \* branch the last update call ran
    raised,              \* update has raised KeyboardInterrupt
    torn,                \* the adapter's signals changed during the update in progress
    shut_log,            \* calls made by main()'s finally block, in order
    cause,               \* what took main() out of its loop
    ticks,               \* update calls made (where a specification counts them)
    last_evt,            \* the event last delivered by the poller
    last_pressed,        \* buttons whose latest event of controller 0 is a press
    sel_run,             \* the joint selections made: kind, count, joints before
    advances,            \* next_color calls made (where a specification counts them)
    reported,            \* the angle get_angles() gave to the last update call
    s_observers,         \* a Subject with several observers: its list
    s_iter,              \* where the for loop of its notify stands
    s_got,               \* observers whose update the current notify has called
    s_stable             \* observers registered ever since that notify began

aggVars == <<pressed_button, trigger_values, stick_values>>
ctlVars == <<joint, color>>
obsVars == <<jd_observers, sa_observers>>
mainVars == <<main_pc, wait_i, shut_log, cause, is_stopped>>
tickVars == <<tick_cmds, tick_branch, raised>>
evtVars == <<last_evt, last_pressed>>
histVars == <<sel_run, advances, reported>>
subjVars == <<s_observers, s_iter, s_got, s_stable>>
restVars == <<evtVars, histVars, subjVars>>

vars ==
    <<pressed_button, trigger_values, stick_values, keyboard_interrupt,
      jd_observers, sa_observers, joint, color, jd_pc, sa_pc, main_pc, wait_i,
      is_stopped, tick_cmds, tick_branch, raised, torn, shut_log, cause, ticks,
      last_evt, last_pressed, sel_run, advances, reported, s_observers, s_iter,
      s_got, s_stable>>

\* No joint selection made yet.
NoRun == [kind |-> "-", n |-> 0, start |-> 0, prev |-> 0]

NoEvent ==
    [type |-> "NONE", user_index |-> 0, button |-> "-", slot |-> 1,
     value |-> 0, dir |-> <<0, 0>>]

\* The objects as their constructors leave them, jd.register(sa) and
\* sa.register(mc) done; pb, j, jpc, spc and mpc give the buttons held, the
\* joint selected and where the two threads and main() stand.
InitWith(pb, j, jpc, spc, mpc) ==
    /\ pressed_button = pb
    /\ trigger_values = <<0, 0>>
    /\ stick_values = <<<<0, 0>>, <<0, 0>>>>
    /\ keyboard_interrupt = "None"
    /\ jd_observers = <<"sa">>
    /\ sa_observers = <<"mc">>
    /\ joint = j
    /\ color = InitColor
    /\ jd_pc = jpc
    /\ sa_pc = spc
    /\ main_pc = mpc
    /\ wait_i = 0
    /\ is_stopped = [t \in {"jd", "sa"} |-> FALSE]
    /\ tick_cmds = <<>>
    /\ tick_branch = "-"
    /\ raised = FALSE
    /\ torn = FALSE
    /\ shut_log = <<>>
    /\ cause = "none"
    /\ ticks = 0
    /\ last_evt = NoEvent
    /\ last_pressed = pb
    /\ sel_run = NoRun
    /\ advances = 0
    /\ reported = 0
    /\ s_observers = <<>>
    /\ s_iter = P("idle", 0)
    /\ s_got = <<>>
    /\ s_stable = {}

\* The state in which main() enters its try block: no thread started.
Init == InitWith({}, InitJoint, "unstarted", P("unstarted", 0), "start_jd")

(***************************************************************************)
(* Joystick_Signal_Adapter.update, called on the poller's thread           *)
(***************************************************************************)
ButtonEvent(type, u, b) ==
    [type |-> type, user_index |-> u, button |-> b, slot |-> 1,
     value |-> 0, dir |-> <<0, 0>>]

TriggerEvent(u, s, v) ==
    [type |-> "TRIGGER_MOVED", user_index |-> u, button |-> "-", slot |-> s,
     value |-> v, dir |-> <<0, 0>>]

StickEvent(u, s, d) ==
    [type |-> "STICK_MOVED", user_index |-> u, button |-> "-", slot |-> s,
     value |-> 0, dir |-> d]

\* set.remove of an absent member raises KeyError.
UpdateRaises(e) ==
    /\ e.user_index = 0
    /\ e.type = "BUTTON_RELEASED"
    /\ e.button \notin pressed_button

\* Mutant of SaUpdate: the test of e.user_index is missing.
SaUpdateNoFilter(e) ==
    IF e.type = "BUTTON_PRESSED"
    THEN /\ pressed_button' = pressed_button \cup {e.button}
         /\ UNCHANGED <<trigger_values, stick_values>>
    ELSE IF e.type = "BUTTON_RELEASED"
    THEN /\ pressed_button' = pressed_button \ {e.button}
         /\ UNCHANGED <<trigger_values, stick_values>>
    ELSE IF e.type = "TRIGGER_MOVED"
    THEN /\ trigger_values' = [trigger_values EXCEPT ![e.slot] = e.value]
         /\ UNCHANGED <<pressed_button, stick_values>>
    ELSE /\ stick_values' = [stick_values EXCEPT ![e.slot] = e.dir]
         /\ UNCHANGED <<pressed_button, trigger_values>>

\* update(e) when it returns normally.
SaUpdate(e) ==
    IF e.user_index # 0
    THEN UNCHANGED aggVars
    ELSE IF e.type = "BUTTON_PRESSED"
    THEN /\ pressed_button' = pressed_button \cup {e.button}
         /\ UNCHANGED <<trigger_values, stick_values>>
    ELSE IF e.type = "BUTTON_RELEASED"
    THEN /\ pressed_button' = pressed_button \ {e.button}
         /\ UNCHANGED <<trigger_values, stick_values>>
    ELSE IF e.type = "TRIGGER_MOVED"
    THEN /\ trigger_values' = [trigger_values EXCEPT ![e.slot] = e.value]
         /\ UNCHANGED <<pressed_button, stick_values>>
    ELSE /\ stick_values' = [stick_values EXCEPT ![e.slot] = e.dir]
         /\ UNCHANGED <<pressed_button, trigger_values>>

(***************************************************************************)
(* Joystick_Detector.run: one event taken from XInput.get_events() and     *)
(* handed to every registered observer.  An exception leaving update is    *)
(* caught nowhere in run: it ends the thread.                              *)
(***************************************************************************)
JdRun(e) ==
    /\ jd_pc = "running"
    /\ IF jd_observers = <<>>
       THEN UNCHANGED <<aggVars, jd_pc>>
       ELSE IF UpdateRaises(e)
       THEN jd_pc' = "dead" /\ UNCHANGED aggVars
       ELSE SaUpdate(e) /\ jd_pc' = jd_pc
    /\ UNCHANGED <<keyboard_interrupt, obsVars, ctlVars, sa_pc, mainVars,
                   tickVars, ticks>>

(***************************************************************************)
(* Customized_MyCobot.update: the branch chosen by the tests               *)
(***************************************************************************)
\* Mutant of Issued: the two joint-selection branches also send a command to
\* the joint they select.
IssuedOnSelection(b, j, c, theta) ==
    IF b = "stand" THEN <<StandCmd>>
    ELSE IF b = "sleep" THEN <<SleepCmd>>
    ELSE IF b = "stop" THEN << <<"stop">> >>
    ELSE IF b = "next_color"
    THEN LET n == NextColor(c) IN << <<"set_color", n[1], n[2], n[3]>> >>
    ELSE IF b = "rot_neg" THEN << <<"send_angle", j, NegTarget(j, theta), 10>> >>
    ELSE IF b = "rot_pos" THEN << <<"send_angle", j, PosTarget(j, theta), 10>> >>
    ELSE IF b = "joint_dec" THEN << <<"send_angle", JointDec(j), 0, 10>> >>
    ELSE IF b = "joint_inc" THEN << <<"send_angle", JointInc(j), 0, 10>> >>
    ELSE <<>>

\* The calls to the actuator API the branch makes, in order.
Issued(b, j, c, theta) ==
    IF b = "stand" THEN <<StandCmd>>
    ELSE IF b = "sleep" THEN <<SleepCmd>>
    ELSE IF b = "stop" THEN << <<"stop">> >>
    ELSE IF b = "next_color"
    THEN LET n == NextColor(c) IN << <<"set_color", n[1], n[2], n[3]>> >>
    ELSE IF b = "rot_neg" THEN << <<"send_angle", j, NegTarget(j, theta), 10>> >>
    ELSE IF b = "rot_pos" THEN << <<"send_angle", j, PosTarget(j, theta), 10>> >>
    ELSE <<>>

\* Branches that call the actuator API.
ActuatorAts == {"stand", "sleep", "stop", "next_color", "rot_neg", "rot_pos"}

\* get_angles() is called by the two rotation branches when joint 6 is selected.
Reported(b, j) == IF b \in {"rot_neg", "rot_pos"} /\ j = 6 THEN Angles6 ELSE {0}

\* Mutant of CtlExec: the "stand" branch also selects joint 1 again.
CtlExecStandSelects(b, theta) ==
    /\ joint' = IF b = "joint_dec" THEN JointDec(joint)
                ELSE IF b = "joint_inc" THEN JointInc(joint)
                ELSE IF b = "stand" THEN InitJoint
                ELSE joint
    /\ color' = IF b = "next_color" THEN NextColor(color) ELSE color
    /\ tick_cmds' = Issued(b, joint, color, theta)
    /\ tick_branch' = b
    /\ raised' = (raised \/ b = "end_program")

\* The branch run to its end; "end_program" raises KeyboardInterrupt.
CtlExec(b, theta) ==
    /\ joint' = IF b = "joint_dec" THEN JointDec(joint)
                ELSE IF b = "joint_inc" THEN JointInc(joint)
                ELSE joint
    /\ color' = IF b = "next_color" THEN NextColor(color) ELSE color
    /\ tick_cmds' = Issued(b, joint, color, theta)
    /\ tick_branch' = b
    /\ raised' = (raised \/ b = "end_program")

\* Mutant of After: the try statement inside the loop, so that run goes on
\* after the KeyboardInterrupt.
AfterSwallow(b) == P("notify", 0)

\* Where Joystick_Signal_Adapter.run stands once update has left the branch:
\* in its except clause, or back at the top of its loop (the 0.1 s sleep done).
After(b) == IF b = "end_program" THEN P("raise", 0) ELSE P("notify", 0)

InUpdate == sa_pc.at \in ReadAts \cup BranchAts

(***************************************************************************)
(* Joystick_Signal_Adapter.run, step by step                               *)
(***************************************************************************)
\* self.notify(): the signals dict refers to the adapter's own set and lists;
\* Subject.notify calls update of every observer (mc, while registered).
SaNotify ==
    /\ sa_pc.at = "notify"
    /\ IF sa_observers = <<>>
       THEN UNCHANGED <<sa_pc, tick_cmds, tick_branch>>
       ELSE /\ sa_pc' = P("len", 0)
            /\ tick_cmds' = <<>>
            /\ tick_branch' = "-"
    /\ UNCHANGED <<aggVars, keyboard_interrupt, obsVars, ctlVars, jd_pc,
                   mainVars, raised, torn, ticks, restVars>>

\* One test of update on signals['buttons'], which is pressed_button itself.
SaTest ==
    /\ sa_pc.at \in ReadAts
    /\ sa_pc' = UpdateStep(sa_pc, pressed_button)
    /\ UNCHANGED <<aggVars, keyboard_interrupt, obsVars, ctlVars, jd_pc,
                   mainVars, tickVars, torn, ticks, restVars>>

SaBranch ==
    /\ sa_pc.at \in BranchAts
    /\ \E theta \in Reported(sa_pc.at, joint) : CtlExec(sa_pc.at, theta)
    /\ sa_pc' = After(sa_pc.at)
    /\ torn' = FALSE
    /\ UNCHANGED <<aggVars, keyboard_interrupt, obsVars, jd_pc, mainVars,
                   ticks, restVars>>

\* The actuator call of the branch raises: run catches KeyboardInterrupt only,
\* so the exception ends the thread.  next_color has assigned self.color
\* before it calls set_color.
SaActuatorFault ==
    /\ sa_pc.at \in ActuatorAts
    /\ sa_pc' = P("dead", 0)
    /\ color' = IF sa_pc.at = "next_color" THEN NextColor(color) ELSE color
    /\ tick_branch' = sa_pc.at
    /\ torn' = FALSE
    /\ UNCHANGED <<aggVars, keyboard_interrupt, obsVars, joint, jd_pc, mainVars,
                   tick_cmds, raised, ticks, restVars>>

\* Mutant of SaCatch: the exception is caught and not stored.
SaCatchNoStore ==
    /\ sa_pc.at = "raise"
    /\ sa_pc' = P("done", 0)
    /\ UNCHANGED <<aggVars, keyboard_interrupt, obsVars, ctlVars, jd_pc,
                   mainVars, tickVars, torn, ticks, restVars>>

\* except KeyboardInterrupt as e: self.keyboard_interrupt = e; run returns.
SaCatch ==
    /\ sa_pc.at = "raise"
    /\ keyboard_interrupt' = "KeyboardInterrupt"
    /\ sa_pc' = P("done", 0)
    /\ UNCHANGED <<aggVars, obsVars, ctlVars, jd_pc, mainVars, tickVars, torn,
                   ticks, restVars>>

SaNext == SaNotify \/ SaTest \/ SaBranch \/ SaActuatorFault \/ SaCatch

(***************************************************************************)
(* My_Thread.kill and Subject.disregister                                  *)
(***************************************************************************)
\* Thread.is_alive(): started, run not yet returned, not marked stopped.
IsAlive(t) ==
    /\ ~is_stopped[t]
    /\ IF t = "jd" THEN jd_pc = "running"
       ELSE sa_pc.at \notin {"unstarted", "done", "dead"}

\* kill(): releases _tstate_lock and calls Thread._stop(), which marks the
\* Thread object stopped; the thread itself is not interrupted and goes on
\* running its loop.
Kill(t) == is_stopped' = [is_stopped EXCEPT ![t] = is_stopped[t] \/ IsAlive(t)]

\* disregister(observer): index() then pop().
Disregister(observers, o) ==
    LET index == CHOOSE k \in 1..Len(observers) : observers[k] = o
    IN  SubSeq(observers, 1, index - 1) \o SubSeq(observers, index + 1, Len(observers))

(***************************************************************************)
(* main()                                                                  *)
(***************************************************************************)
MainStartJd ==
    /\ main_pc = "start_jd"
    /\ jd_pc' = "running"
    /\ main_pc' = "start_sa"
    /\ UNCHANGED <<aggVars, keyboard_interrupt, obsVars, ctlVars, sa_pc, wait_i,
                   shut_log, cause, is_stopped, tickVars, torn, ticks, restVars>>

MainStartSa ==
    /\ main_pc = "start_sa"
    /\ sa_pc' = P("notify", 0)
    /\ main_pc' = "loop"
    /\ UNCHANGED <<aggVars, keyboard_interrupt, obsVars, ctlVars, jd_pc, wait_i,
                   shut_log, cause, is_stopped, tickVars, torn, ticks, restVars>>

\* while True: if sa.keyboard_interrupt is not None: raise sa.keyboard_interrupt
MainLoop ==
    /\ main_pc = "loop"
    /\ IF keyboard_interrupt # "None"
       THEN main_pc' = "except" /\ cause' = "inband"
       ELSE UNCHANGED <<main_pc, cause>>
    /\ UNCHANGED <<aggVars, keyboard_interrupt, obsVars, ctlVars, jd_pc, sa_pc,
                   wait_i, shut_log, is_stopped, tickVars, torn, ticks, restVars>>

\* except KeyboardInterrupt: print('User stopped the program.')
MainExcept ==
    /\ main_pc = "except"
    /\ main_pc' = "disreg_jd"
    /\ UNCHANGED <<aggVars, keyboard_interrupt, obsVars, ctlVars, jd_pc, sa_pc,
                   wait_i, shut_log, cause, is_stopped, tickVars, torn, ticks,
                   restVars>>

\* finally: jd.disregister(sa)
MainDisregJd ==
    /\ main_pc = "disreg_jd"
    /\ jd_observers' = Disregister(jd_observers, "sa")
    /\ shut_log' = Append(shut_log, <<"disregister", "jd", "sa">>)
    /\ main_pc' = "disreg_sa"
    /\ UNCHANGED <<aggVars, keyboard_interrupt, sa_observers, ctlVars, jd_pc,
                   sa_pc, wait_i, cause, is_stopped, tickVars, torn, ticks,
                   restVars>>

\* sa.disregister(mc)
MainDisregSa ==
    /\ main_pc = "disreg_sa"
    /\ sa_observers' = Disregister(sa_observers, "mc")
    /\ shut_log' = Append(shut_log, <<"disregister", "sa", "mc">>)
    /\ main_pc' = "kill_jd"
    /\ UNCHANGED <<aggVars, keyboard_interrupt, jd_observers, ctlVars, jd_pc,
                   sa_pc, wait_i, cause, is_stopped, tickVars, torn, ticks,
                   restVars>>

\* jd.kill()
MainKillJd ==
    /\ main_pc = "kill_jd"
    /\ Kill("jd")
    /\ shut_log' = Append(shut_log, <<"kill", "jd">>)
    /\ main_pc' = "kill_sa"
    /\ UNCHANGED <<aggVars, keyboard_interrupt, obsVars, ctlVars, jd_pc, sa_pc,
                   wait_i, cause, tickVars, torn, ticks, restVars>>

\* sa.kill()
MainKillSa ==
    /\ main_pc = "kill_sa"
    /\ Kill("sa")
    /\ shut_log' = Append(shut_log, <<"kill", "sa">>)
    /\ main_pc' = "go_sleep"
    /\ UNCHANGED <<aggVars, keyboard_interrupt, obsVars, ctlVars, jd_pc, sa_pc,
                   wait_i, cause, tickVars, torn, ticks, restVars>>

\* mc.go_sleep(), then the countdown starts at range(10, 0, -1).
MainGoSleep ==
    /\ main_pc = "go_sleep"
    /\ shut_log' = Append(shut_log, GoSleepCmd)
    /\ wait_i' = GraceSeconds
    /\ main_pc' = "wait"
    /\ UNCHANGED <<aggVars, keyboard_interrupt, obsVars, ctlVars, jd_pc, sa_pc,
                   cause, is_stopped, tickVars, torn, ticks, restVars>>

\* One turn of the countdown: print, time.sleep(1).
MainWait ==
    /\ main_pc = "wait"
    /\ shut_log' = Append(shut_log, <<"sleep", 1>>)
    /\ wait_i' = wait_i - 1
    /\ main_pc' = IF wait_i > 1 THEN "wait" ELSE "release"
    /\ UNCHANGED <<aggVars, keyboard_interrupt, obsVars, ctlVars, jd_pc, sa_pc,
                   cause, is_stopped, tickVars, torn, ticks, restVars>>

\* mc.release_all_servos(); main returns.
MainRelease ==
    /\ main_pc = "release"
    /\ shut_log' = Append(shut_log, <<"release_all_servos">>)
    /\ main_pc' = "done"
    /\ UNCHANGED <<aggVars, keyboard_interrupt, obsVars, ctlVars, jd_pc, sa_pc,
                   wait_i, cause, is_stopped, tickVars, torn, ticks, restVars>>

TryPcs == {"start_jd", "start_sa", "loop"}
FinallyPcs ==
    {"disreg_jd", "disreg_sa", "kill_jd", "kill_sa", "go_sleep", "wait", "release"}

\* Ctrl-C: KeyboardInterrupt is raised in the main thread wherever it stands.
\* Inside the try block it is caught by the except clause; inside the except
\* clause it leaves it and the finally block runs; inside the finally block
\* nothing catches it and the rest of the block is not run.
ExternalInterrupt ==
    /\ main_pc \in TryPcs \cup {"except"} \cup FinallyPcs
    /\ main_pc' = IF main_pc \in TryPcs THEN "except"
                  ELSE IF main_pc = "except" THEN "disreg_jd"
                  ELSE "aborted"
    /\ cause' = IF main_pc \in TryPcs THEN "external" ELSE cause
    /\ UNCHANGED <<aggVars, keyboard_interrupt, obsVars, ctlVars, jd_pc, sa_pc,
                   wait_i, shut_log, is_stopped, tickVars, torn, ticks, restVars>>

MainNext ==
    \/ MainStartJd
    \/ MainStartSa
    \/ MainLoop
    \/ MainExcept
    \/ MainDisregJd
    \/ MainDisregSa
    \/ MainKillJd
    \/ MainKillSa
    \/ MainGoSleep
    \/ MainWait
    \/ MainRelease

(***************************************************************************)
(* The whole program                                                       *)
(***************************************************************************)
\* The buttons the joystick driver reports in the runs of the whole program.
DriverButtons == {"A", "LEFT_SHOULDER", "RIGHT_SHOULDER", "START", "BACK"}

DriverEvents ==
    {ButtonEvent(t, u, b) :
        t \in {"BUTTON_PRESSED", "BUTTON_RELEASED"}, u \in {0, 1}, b \in DriverButtons}

\* The poller delivers e; torn records that the adapter's signals changed
\* while an update call was reading them.
Poll(e) ==
    /\ JdRun(e)
    /\ torn' = (torn \/ (InUpdate /\ aggVars' # aggVars))
    /\ UNCHANGED restVars

Next ==
    \/ MainNext
    \/ ExternalInterrupt
    \/ \E e \in DriverEvents : Poll(e)
    \/ SaNext

Spec == Init /\ [][Next]_vars

\* The interpreter switches between runnable threads: the adapter's thread and
\* the main thread each keep taking steps.  Nothing obliges the driver to
\* produce events or the operator to press Ctrl-C.
FairSpec == Spec /\ WF_vars(SaNext) /\ WF_vars(MainNext)

(***************************************************************************)
(* Customized_MyCobot.update called on given snapshots, nothing else       *)
(* running meanwhile: main() is in its loop, the buttons are held from one *)
(* call to the next.                                                       *)
(***************************************************************************)
MaxTicks == 2

InitCtl ==
    \E pb \in SUBSET Buttons, j \in 1..6 :
        InitWith(pb, j, "running", P("notify", 0), "loop")

\* notify() and the update call it makes, from the first test to the end of
\* the branch.
CtlTick ==
    /\ sa_pc.at = "notify"
    /\ sa_observers # <<>>
    /\ ticks < MaxTicks
    /\ LET b == Decide(pressed_button)
       IN  /\ \E theta \in Reported(b, joint) : CtlExec(b, theta)
           /\ sa_pc' = After(b)
    /\ ticks' = ticks + 1
    /\ UNCHANGED <<aggVars, keyboard_interrupt, obsVars, jd_pc, mainVars, torn,
                   restVars>>

SpecCtl == InitCtl /\ [][CtlTick]_vars

(***************************************************************************)
(* The poller delivering events to the adapter, nothing else running.      *)
(***************************************************************************)
NAggButtons == 3

AggButtons == {Priority[k] : k \in 1..NAggButtons}

AggEvents ==
    {ButtonEvent(t, u, b) :
        t \in {"BUTTON_PRESSED", "BUTTON_RELEASED"}, u \in {0, 1}, b \in AggButtons}
    \cup {TriggerEvent(u, sl, v) : u \in {0, 1}, sl \in {1, 2}, v \in {0, 1}}
    \cup {StickEvent(u, sl, d) : u \in {0, 1}, sl \in {1, 2}, d \in {<<0, 0>>, <<1, 0>>}}

\* The poller delivers e; last_evt and last_pressed record the events seen.
Deliver(e) ==
    /\ JdRun(e)
    /\ last_evt' = e
    /\ last_pressed' =
           IF e.user_index = 0 /\ e.type = "BUTTON_PRESSED"
           THEN last_pressed \cup {e.button}
           ELSE IF e.user_index = 0 /\ e.type = "BUTTON_RELEASED"
           THEN last_pressed \ {e.button}
           ELSE last_pressed
    /\ UNCHANGED <<torn, histVars, subjVars>>

InitAgg == InitWith({}, InitJoint, "running", P("notify", 0), "loop")

SpecAgg == InitAgg /\ [][\E e \in AggEvents : Deliver(e)]_vars
(***************************************************************************)
(* Customized_MyCobot.update called round after round from the state the   *)
(* constructor leaves, the buttons held changing between the calls.        *)
(***************************************************************************)
MaxAdvances == 24

\* The buttons the poller has left in pressed_button when notify() runs.
RunSnapshots ==
    {{}} \cup {{Priority[k]} : k \in 1..Len(Priority)}
         \cup {{"LEFT_SHOULDER", "RIGHT_SHOULDER"}, {"START"}}

\* sel_run after a call that took branch b with joint j selected before it:
\* kind is the last selection branch taken, n counts the consecutive calls of
\* that kind (starting again after one per joint), start is the joint before
\* the first of them and prev the joint before the last.
RunAfter(b, j) ==
    IF b \notin {"joint_dec", "joint_inc"}
    THEN sel_run
    ELSE IF sel_run.kind = b /\ sel_run.n < Len(MIN_ANGLES)
    THEN [sel_run EXCEPT !.n = @ + 1, !.prev = j]
    ELSE [kind |-> b, n |-> 1, start |-> j, prev |-> j]

\* notify() and the update call it makes, the buttons bs being held.
RunTick(bs) ==
    /\ sa_pc.at = "notify"
    /\ sa_observers # <<>>
    /\ pressed_button' = bs
    /\ LET b == Decide(bs)
       IN  /\ b = "next_color" => advances < MaxAdvances
           /\ \E theta \in Reported(b, joint) :
                  CtlExec(b, theta) /\ reported' = theta
           /\ sa_pc' = After(b)
           /\ advances' = IF b = "next_color" THEN advances + 1 ELSE advances
           /\ sel_run' = RunAfter(b, joint)
    /\ UNCHANGED <<trigger_values, stick_values, keyboard_interrupt, obsVars,
                   jd_pc, mainVars, torn, ticks, evtVars, subjVars>>

SpecRun == InitAgg /\ [][\E bs \in RunSnapshots : RunTick(bs)]_vars
(***************************************************************************)
(* Customized_MyCobot.update on DPAD_LEFT and DPAD_RIGHT, get_angles()     *)
(* reporting any whole angle of the range of joint 6.                      *)
(***************************************************************************)
AllAngles6 == MIN_ANGLES[6]..MAX_ANGLES[6]

WrapSnapshots ==
    {{"DPAD_LEFT"}, {"DPAD_RIGHT"}, {"DPAD_LEFT", "DPAD_RIGHT"},
     {"DPAD_RIGHT", "RIGHT_SHOULDER"}}

InitWrap ==
    \E pb \in WrapSnapshots, j \in {5, 6} :
        InitWith(pb, j, "running", P("notify", 0), "loop")

\* notify() and the update call it makes; reported is what get_angles() gave.
WrapTick ==
    /\ sa_pc.at = "notify"
    /\ sa_observers # <<>>
    /\ ticks < MaxTicks
    /\ LET b == Decide(pressed_button)
       IN  /\ \E theta \in (IF joint = 6 THEN AllAngles6 ELSE {0}) :
                  CtlExec(b, theta) /\ reported' = theta
           /\ sa_pc' = After(b)
    /\ ticks' = ticks + 1
    /\ UNCHANGED <<aggVars, keyboard_interrupt, obsVars, jd_pc, mainVars, torn,
                   evtVars, sel_run, advances, subjVars>>

SpecWrap == InitWrap /\ [][WrapTick]_vars
(***************************************************************************)
(* The poller delivering button events and the adapter calling update, one *)
(* after the other: no event arrives while an update call runs.            *)
(***************************************************************************)
SeqEvents ==
    {ButtonEvent(t, 0, Priority[k]) :
        t \in {"BUTTON_PRESSED", "BUTTON_RELEASED"}, k \in 1..Len(Priority)}

SpecSeq == InitAgg /\ [][(\E e \in SeqEvents : Poll(e)) \/ CtlTick]_vars
(***************************************************************************)
(* A Subject with several observers: one thread runs notify while another  *)
(* registers and disregisters observers.  The for loop of notify holds a   *)
(* list iterator, that is the list and the index of the next item.         *)
(***************************************************************************)
NObservers == 3

Observers == 1..NObservers

\* for observer in self.observers: the iterator is created.
SubjNotify ==
    /\ s_iter.at \in {"idle", "end"}
    /\ s_iter' = P("iter", 0)
    /\ s_got' = <<>>
    /\ s_stable' = {s_observers[k] : k \in 1..Len(s_observers)}
    /\ UNCHANGED s_observers

\* The iterator is asked for its next item: observer.update(obj) is called on
\* the item at its index, or the loop ends when the index has reached the
\* length the list has now.
SubjIterate ==
    /\ s_iter.at = "iter"
    /\ IF s_iter.i < Len(s_observers)
       THEN /\ s_got' = Append(s_got, s_observers[s_iter.i + 1])
            /\ s_iter' = P("iter", s_iter.i + 1)
       ELSE /\ s_iter' = P("end", s_iter.i)
            /\ UNCHANGED s_got
    /\ UNCHANGED <<s_observers, s_stable>>

\* register(o) by the other thread: self.observers.extend((o,)).
SubjRegister(o) ==
    /\ \A k \in 1..Len(s_observers) : s_observers[k] # o
    /\ s_observers' = Append(s_observers, o)
    /\ UNCHANGED <<s_iter, s_got, s_stable>>

\* disregister(o) by the other thread: index, then pop.
SubjDisregister(o) ==
    /\ \E k \in 1..Len(s_observers) : s_observers[k] = o
    /\ s_observers' = Disregister(s_observers, o)
    /\ s_stable' = s_stable \ {o}
    /\ UNCHANGED <<s_iter, s_got>>

SubjNext ==
    /\ \/ SubjNotify
       \/ SubjIterate
       \/ \E o \in Observers : SubjRegister(o)
       \/ \E o \in Observers : SubjDisregister(o)
    /\ UNCHANGED <<aggVars, keyboard_interrupt, obsVars, ctlVars, jd_pc, sa_pc,
                   mainVars, tickVars, torn, ticks, evtVars, histVars>>

SpecSubject == InitAgg /\ [][SubjNext]_vars

(***************************************************************************)
(* Properties                                                              *)
(***************************************************************************)
IsPrefix(s, t) == Len(s) <= Len(t) /\ SubSeq(t, 1, Len(s)) = s

\* The termination combination and the priority order, as the specification
\* of the program states them.
ClaimCombo == {"LEFT_SHOULDER", "RIGHT_SHOULDER", "START", "BACK"}

ClaimOrder ==
    <<"A", "B", "X", "Y", "DPAD_LEFT", "DPAD_RIGHT", "LEFT_SHOULDER",
      "RIGHT_SHOULDER">>

\* The highest-priority action button of a snapshot ("-" when it holds none).
Highest(bs) ==
    IF \E k \in 1..Len(ClaimOrder) : ClaimOrder[k] \in bs
    THEN ClaimOrder[CHOOSE k \in 1..Len(ClaimOrder) :
                        /\ ClaimOrder[k] \in bs
                        /\ \A m \in 1..(k - 1) : ClaimOrder[m] \notin bs]
    ELSE "-"

\* What one update call does when it performs the action of button h and of
\* no other button (j and c: joint and colour before the call).
ActionOf(h, j, c) ==
    IF h = "A"
    THEN /\ tick_cmds' = << <<"send_angles", <<0, 0, 0, 0, 0, 0>>, 50>> >>
         /\ joint' = j /\ color' = c
    ELSE IF h = "B"
    THEN /\ tick_cmds' = << <<"send_angles", <<83, 140, -150, 154, 87, 0>>, 50>> >>
         /\ joint' = j /\ color' = c
    ELSE IF h = "X"
    THEN tick_cmds' = << <<"stop">> >> /\ joint' = j /\ color' = c
    ELSE IF h = "Y"
    THEN /\ Len(tick_cmds') = 1 /\ tick_cmds'[1][1] = "set_color"
         /\ tick_branch' = "next_color" /\ joint' = j
    ELSE IF h = "DPAD_LEFT"
    THEN /\ Len(tick_cmds') = 1 /\ tick_cmds'[1][1] = "send_angle"
         /\ tick_branch' = "rot_neg" /\ joint' = j /\ color' = c
    ELSE IF h = "DPAD_RIGHT"
    THEN /\ Len(tick_cmds') = 1 /\ tick_cmds'[1][1] = "send_angle"
         /\ tick_branch' = "rot_pos" /\ joint' = j /\ color' = c
    ELSE IF h = "LEFT_SHOULDER"
    THEN /\ tick_cmds' = <<>> /\ color' = c
         /\ joint' = IF j = 1 THEN 6 ELSE j - 1
    ELSE IF h = "RIGHT_SHOULDER"
    THEN /\ tick_cmds' = <<>> /\ color' = c
         /\ joint' = IF j = 6 THEN 1 ELSE j + 1
    ELSE tick_cmds' = <<>> /\ joint' = j /\ color' = c

\* C1: an update call on a non-empty snapshot that does not hold the whole
\* termination combination issues at most one actuator command and performs
\* the action of the highest-priority pressed button in the order
\* A > B > X > Y > DPAD_LEFT > DPAD_RIGHT > LEFT_SHOULDER > RIGHT_SHOULDER,
\* and of no other button.
C1_HighestPriorityOnly ==
    [][(/\ ticks' = ticks + 1
        /\ pressed_button # {}
        /\ ~(ClaimCombo \subseteq pressed_button))
       => (/\ Len(tick_cmds') <= 1
           /\ ~raised'
           /\ ActionOf(Highest(pressed_button), joint, color))]_vars

C1_Witness ==
    /\ ticks = 1
    /\ pressed_button = {"A", "Y", "LEFT_SHOULDER", "RIGHT_SHOULDER"}
    /\ tick_cmds = <<StandCmd>>

\* C2: an update call on a snapshot that holds LEFT_SHOULDER, RIGHT_SHOULDER,
\* START and BACK, whatever else it holds, raises the termination signal,
\* issues no actuator command and leaves joint and colour unchanged.
C2_ComboTerminates ==
    [][(ticks' = ticks + 1 /\ ClaimCombo \subseteq pressed_button)
       => (/\ raised'
           /\ sa_pc'.at = "raise"
           /\ tick_cmds' = <<>>
           /\ joint' = joint
           /\ color' = color)]_vars

C2_Witness ==
    /\ ticks = 1
    /\ raised
    /\ pressed_button = ClaimCombo \cup {"A", "Y", "DPAD_LEFT"}

\* The shutdown sequence of the specification: both observers unregistered,
\* both threads stopped, the SLEEP pose at speed 50, ten waits of one second,
\* release-all-servos.
ClaimShutdown ==
    << <<"disregister", "jd", "sa">>, <<"disregister", "sa", "mc">>,
       <<"kill", "jd">>, <<"kill", "sa">>,
       <<"send_angles", <<83, 140, -150, 154, 87, 0>>, 50>> >>
    \o [k \in 1..10 |-> <<"sleep", 1>>]
    \o << <<"release_all_servos">> >>

\* C3: the calls of the shutdown sequence are made in the order unregister,
\* stop the threads, SLEEP pose, ten seconds of wait, release-all-servos, none
\* twice and none out of turn (so release-all-servos never precedes the pose
\* and the full wait), and when main() returns all of them have been made.
C3_ShutdownOrder ==
    /\ IsPrefix(shut_log, ClaimShutdown)
    /\ main_pc = "done" => shut_log = ClaimShutdown

C3_Witness ==
    /\ cause = "external"
    /\ main_pc = "done"
    /\ shut_log = ClaimShutdown
    /\ jd_observers = <<>>
    /\ sa_observers = <<>>

\* C4: after an external interrupt has started the shutdown, main() ends
\* only with the whole sequence done, further interrupts notwithstanding.
C4_ShutdownRunsOnce ==
    (cause = "external" /\ main_pc \in {"done", "aborted"})
        => shut_log = ClaimShutdown

\* C5: once update has raised the termination signal, the adapter stores it,
\* main() leaves its loop, and the shutdown sequence runs to
\* release-all-servos, unless Ctrl-C cuts the sequence short (C4).
C5_InbandTermination ==
    /\ raised ~> (keyboard_interrupt # "None")
    /\ (keyboard_interrupt # "None") ~> (main_pc \notin TryPcs)
    /\ raised ~> (shut_log = ClaimShutdown \/ main_pc = "aborted")

C5_Witness ==
    /\ raised
    /\ cause = "inband"
    /\ main_pc = "done"
    /\ shut_log = ClaimShutdown

\* C6: once update has raised the termination signal, the adapter's thread is
\* in or past its except clause, update is not called again, and no actuator
\* command is issued nor joint or colour changed, whatever is pressed.
C6_NoUpdateAfterRaise ==
    [][raised
       => (/\ raised'
           /\ sa_pc'.at \in {"raise", "done"}
           /\ UNCHANGED <<ctlVars, tick_cmds, tick_branch>>)]_vars

C6_Witness ==
    /\ raised
    /\ sa_pc.at = "done"
    /\ pressed_button = {"A"}
    /\ jd_observers # <<>>

\* C7: what update sees of the adapter's signals does not change between the
\* start and the end of one call.
C7_SnapshotIsStable == InUpdate => ~torn

\* C8: the adapter's pressed_button is the set of buttons whose latest event
\* of controller 0 is a press; a press followed at once by the release of the
\* same button, from the empty set, leaves it empty; events of another
\* controller change neither the buttons, the triggers nor the sticks.
C8_PressedIsLatestPress ==
    [][/\ jd_pc' = "running" => pressed_button' = last_pressed'
       /\ (/\ pressed_button = {}
           /\ last_evt' = ButtonEvent("BUTTON_PRESSED", 0, "A"))
          => pressed_button' = {"A"}
       /\ (/\ pressed_button = {"A"}
           /\ last_evt = ButtonEvent("BUTTON_PRESSED", 0, "A")
           /\ last_evt' = ButtonEvent("BUTTON_RELEASED", 0, "A"))
          => pressed_button' = {}
       /\ last_evt'.user_index # 0 => UNCHANGED aggVars]_vars

C8_Witness ==
    /\ last_evt = ButtonEvent("BUTTON_RELEASED", 0, "A")
    /\ pressed_button = {"B"}
    /\ trigger_values = <<0, 1>>
    /\ jd_pc = "running"

\* C9: the release of a button that is not recorded as pressed leaves the
\* adapter's state as it was and the poller delivering events.
C9_BadReleaseKeepsPipeline ==
    [][(/\ jd_pc = "running"
        /\ last_evt'.type = "BUTTON_RELEASED"
        /\ last_evt'.user_index = 0
        /\ last_evt'.button \notin pressed_button)
       => (jd_pc' = "running" /\ UNCHANGED aggVars)]_vars

\* C10: when the poller's or the adapter's thread has died of an exception,
\* main() leaves its loop and the shutdown sequence runs.
C10_DeadThreadShutsDown ==
    (jd_pc = "dead" \/ sa_pc.at = "dead") ~> (main_pc \notin TryPcs)

\* C11: an actuator call that raises during an update call ends that call
\* only: the adapter's thread is still in its loop afterwards and calls
\* update again on its next round.
C11_FaultKeepsLoop == sa_pc.at # "dead"

\* The eight buttons of the if/elif chain, as the claims list them.
ClaimActionButtons ==
    {"A", "B", "X", "Y", "DPAD_LEFT", "DPAD_RIGHT", "LEFT_SHOULDER",
     "RIGHT_SHOULDER"}

\* C12 as stated: an update call on a snapshot that holds exactly one of the
\* eight action buttons issues exactly one actuator command.
C12_OneCommandPerAction ==
    [][(/\ ticks' = ticks + 1
        /\ Cardinality(pressed_button \cap ClaimActionButtons) = 1)
       => Len(tick_cmds') = 1]_vars

\* C12: an update call on a snapshot that holds exactly one of the eight
\* action buttons issues exactly one actuator command when that button is A,
\* B, X, Y, DPAD_LEFT or DPAD_RIGHT, and none when it is LEFT_SHOULDER or
\* RIGHT_SHOULDER (the selected joint changes and nothing is sent); no update
\* call issues more than one command.
C12_OneCommandPerActuatorAction ==
    [][ticks' = ticks + 1
       => /\ Len(tick_cmds') <= 1
          /\ Cardinality(pressed_button \cap ClaimActionButtons) = 1
             => IF pressed_button \cap {"LEFT_SHOULDER", "RIGHT_SHOULDER"} = {}
                THEN Len(tick_cmds') = 1
                ELSE tick_cmds' = <<>> /\ joint' # joint]_vars

C12_Witness ==
    /\ ticks = 1
    /\ pressed_button = {"LEFT_SHOULDER", "START"}
    /\ tick_branch = "joint_dec"
    /\ tick_cmds = <<>>

\* C13: the selected joint starts at 1 and is always one of 1..6; the
\* LEFT_SHOULDER action takes 1 to 6 and any other j to j - 1, the
\* RIGHT_SHOULDER action takes 6 to 1 and any other j to j + 1; six
\* consecutive selections of one kind bring the joint back to where it was,
\* an increment after a decrement restores the joint, and no other action
\* changes it.
C13_JointRing ==
    /\ joint = 1
    /\ [](joint \in 1..6)
    /\ [][LET h == Highest(pressed_button')
          IN  /\ h = "LEFT_SHOULDER"
                 => joint' = IF joint = 1 THEN 6 ELSE joint - 1
              /\ h = "RIGHT_SHOULDER"
                 => joint' = IF joint = 6 THEN 1 ELSE joint + 1
              /\ h \notin {"LEFT_SHOULDER", "RIGHT_SHOULDER"} => joint' = joint
              /\ sel_run'.n = 6 => joint' = sel_run'.start
              /\ (sel_run.kind = "joint_dec" /\ h = "RIGHT_SHOULDER")
                 => joint' = sel_run.prev]_vars

C13_Witness ==
    /\ sel_run = [kind |-> "joint_dec", n |-> 6, start |-> 1, prev |-> 2]
    /\ joint = 1
    /\ tick_branch = "joint_dec"

\* The colours the claim lists for the first eight advances.
ClaimColors ==
    <<<<0, 223, 32>>, <<0, 191, 64>>, <<0, 159, 96>>, <<0, 127, 128>>,
      <<0, 95, 160>>, <<0, 63, 192>>, <<0, 31, 224>>, <<0, 0, 255>>>>

\* C15: from (0, 255, 0) the first eight colour advances give the colours
\* listed, each advance issuing one set-colour command with the new colour;
\* every colour reached has its channels in 0..255, summing to 255, with at
\* least one channel 0; the colour is (0, 255, 0) again after 24 advances and
\* not before.
C15_ColourCycle ==
    /\ advances = 0 => color = <<0, 255, 0>>
    /\ advances \in 1..8 => color = ClaimColors[advances]
    /\ advances \in 1..23 => color # <<0, 255, 0>>
    /\ advances = 24 => color = <<0, 255, 0>>
    /\ \A k \in 1..3 : color[k] \in 0..255
    /\ color[1] + color[2] + color[3] = 255
    /\ \E k \in 1..3 : color[k] = 0
    /\ tick_branch = "next_color"
       => tick_cmds = << <<"set_color", color[1], color[2], color[3]>> >>

C15_Witness ==
    /\ advances = 24
    /\ color = <<0, 255, 0>>
    /\ tick_branch = "next_color"

\* C14: with joint 6 selected and get_angles() reporting a whole angle theta
\* of -180..180, an update call acting on DPAD_LEFT sends joint 6 to
\* theta - 179, plus 360 when that is below -180, and one acting on
\* DPAD_RIGHT sends it to theta + 179, minus 360 when that is above 180; the
\* target sent is always within -180..180.
C14_Joint6Wraps ==
    [][(ticks' = ticks + 1 /\ joint = 6)
       => LET h == Highest(pressed_button)
              th == reported'
              t == IF h = "DPAD_LEFT"
                   THEN IF th - 179 < -180 THEN th - 179 + 360 ELSE th - 179
                   ELSE IF th + 179 > 180 THEN th + 179 - 360 ELSE th + 179
          IN  h \in {"DPAD_LEFT", "DPAD_RIGHT"}
              => /\ th \in -180..180
                 /\ Len(tick_cmds') = 1
                 /\ tick_cmds'[1][1] = "send_angle"
                 /\ tick_cmds'[1][2] = 6
                 /\ tick_cmds'[1][3] = t
                 /\ t \in -180..180]_vars

C14_Witness ==
    /\ pressed_button = {"DPAD_LEFT"}
    /\ joint = 6
    /\ reported = -180
    /\ tick_cmds = << <<"send_angle", 6, 1, 10>> >>

\* C16: once the poller has delivered the press of A, an update call made
\* with A alone held issues the command that sends the six joints to 0 at
\* speed 50 and leaves the selected joint and the colour as they were.  The
\* actions of A, B, X, DPAD_LEFT and DPAD_RIGHT and the idle call leave both
\* unchanged, the colour advance leaves the selected joint unchanged, the two
\* joint selections leave the colour unchanged; the delivery of an event
\* changes neither and issues no command.
C16_StandAndFrames ==
    [][IF ticks' = ticks + 1
       THEN LET h == Highest(pressed_button)
            IN  /\ pressed_button = {"A"}
                   => /\ tick_cmds' = << <<"send_angles", <<0, 0, 0, 0, 0, 0>>, 50>> >>
                      /\ joint' = joint /\ color' = color
                /\ h \in {"A", "B", "X", "DPAD_LEFT", "DPAD_RIGHT", "-"}
                   => joint' = joint /\ color' = color
                /\ h = "Y" => joint' = joint
                /\ h \in {"LEFT_SHOULDER", "RIGHT_SHOULDER"} => color' = color
       ELSE joint' = joint /\ color' = color /\ tick_cmds' = tick_cmds]_vars

C16_Witness ==
    /\ jd_pc = "running"
    /\ pressed_button = {"A"}
    /\ ticks = 2
    /\ tick_cmds = << <<"send_angles", <<0, 0, 0, 0, 0, 0>>, 50>> >>
    /\ joint = 6
    /\ color = <<0, 255, 0>>

\* The limits of joints 1..5 as the claim lists them.
ClaimMin == <<-160, -100, -150, -150, -160>>
ClaimMax == <<160, 100, 150, 150, 160>>

\* C17: with joint j of 1..5 selected, an update call acting on DPAD_LEFT
\* issues exactly the single-joint command (j, min[j], speed 10) and one
\* acting on DPAD_RIGHT exactly (j, max[j], speed 10); every single-joint
\* command names the joint selected at that call.
C17_RotateToLimit ==
    [][ticks' = ticks + 1
       => LET h == IF ClaimCombo \subseteq pressed_button
                   THEN "-"
                   ELSE Highest(pressed_button)
          IN  /\ (joint \in 1..5 /\ h = "DPAD_LEFT")
                 => tick_cmds' = << <<"send_angle", joint, ClaimMin[joint], 10>> >>
              /\ (joint \in 1..5 /\ h = "DPAD_RIGHT")
                 => tick_cmds' = << <<"send_angle", joint, ClaimMax[joint], 10>> >>
              /\ \A k \in 1..Len(tick_cmds') :
                     tick_cmds'[k][1] = "send_angle" => tick_cmds'[k][2] = joint]_vars

C17_Witness ==
    /\ ticks = 2
    /\ joint = 2
    /\ pressed_button = {"DPAD_RIGHT", "RIGHT_SHOULDER", "BACK"}
    /\ tick_cmds = << <<"send_angle", 2, 100, 10>> >>

\* The table of joint limits, one entry per joint.
ClaimLimitMin == <<-160, -100, -150, -150, -160, -180>>
ClaimLimitMax == <<160, 100, 150, 150, 160, 180>>

\* Every angle of the command lies within the limits of the joint it is for.
WithinLimits(cmd) ==
    /\ cmd[1] = "send_angles"
       => \A k \in 1..6 : cmd[2][k] \in ClaimLimitMin[k]..ClaimLimitMax[k]
    /\ cmd[1] = "send_angle"
       => cmd[3] \in ClaimLimitMin[cmd[2]]..ClaimLimitMax[cmd[2]]

\* C19: every joint angle in a command sent to the arm, by an update call or
\* by the shutdown sequence, lies within the limits of its joint.
C19_BoundedTravel ==
    /\ \A k \in 1..Len(tick_cmds) : WithinLimits(tick_cmds[k])
    /\ \A k \in 1..Len(shut_log) : WithinLimits(shut_log[k])

\* The members of s taken in the order of s, those outside keep left out.
Restrict(s, keep) == SelectSeq(s, LAMBDA o : o \in keep)

\* C18: when a notify has gone through the list while another thread
\* registered or disregistered observers, every observer that was registered
\* from its beginning to its end has had its update called exactly once, in
\* the order of registration.
C18_DispatchSafe ==
    s_iter.at = "end" => Restrict(s_got, s_stable) = Restrict(s_observers, s_stable)

\* C20: once main() has sent the sleeping pose of the shutdown sequence, no
\* update call is in progress and neither the poller's nor the adapter's
\* thread takes a step: the adapter's signals, the position of both threads
\* and the commands issued by update stay as they are.
C20_ThreadsQuietAtShutdown ==
    [][(\E k \in 1..Len(shut_log) : shut_log[k][1] = "send_angles")
       => /\ ~InUpdate
          /\ jd_pc' = jd_pc
          /\ sa_pc' = sa_pc
          /\ aggVars' = aggVars
          /\ tick_cmds' = tick_cmds]_vars
====
